---------------------------- MODULE Spec2Model ----------------------------
(***************************************************************************)
(* Model of the dialogue core of the symptom checker                        *)
(* (src/backend/chatbot.py, class SymptomCheckerBot) and of the HTTP        *)
(* handler that drives it (src/backend/app.py, chat).                       *)
(*                                                                          *)
(* Texts are TLA+ strings; substring tests, word-boundary regular           *)
(* expressions, lower-casing, splitting and sorting are computed character  *)
(* by character, as Python computes them.                                   *)
(***************************************************************************)
EXTENDS Integers, Sequences, FiniteSets, TLC

(***************************************************************************)
(* Bounds                                                                   *)
(***************************************************************************)
\* number of HTTP requests handled in one run of the process
MaxTurns == 2

\* number of causes of the largest data file the ranker is run on by itself
MaxCauses == 4

(***************************************************************************)
(* Python values and string primitives                                      *)
(***************************************************************************)
\* Python's None (a value no text of the model is equal to)
None == "<None>"

\* bool(v) for the values the code tests: None and '' are falsy
Truthy(v) == v # None /\ v # ""

UpperChars == "ABCDEFGHIJKLMNOPQRSTUVWXYZ"
LowerChars == "abcdefghijklmnopqrstuvwxyz"
Digits == "0123456789"

\* the characters of a text, as a set of one-character strings
CharsOf(s) == {SubSeq(s, i, i) : i \in 1..Len(s)}

\* \w of the re module (ASCII part)
WordChars == CharsOf(UpperChars) \cup CharsOf(LowerChars) \cup CharsOf(Digits) \cup {"_"}
\* \s of the re module (the white space the inputs use)
WhiteSpace == {" ", "\t", "\n"}
\* \d of the re module
DigitChars == CharsOf(Digits)

\* characters in code-point order, for the comparison sorted() makes
CodeOrder == " ,-0123456789:;ABCDEFGHIJKLMNOPQRSTUVWXYZ_abcdefghijklmnopqrstuvwxyz"
code_map == [c \in CharsOf(CodeOrder) |->
                CHOOSE i \in 1..Len(CodeOrder) : SubSeq(CodeOrder, i, i) = c]
CharCode(c) == IF c \in DOMAIN code_map THEN code_map[c] ELSE 0

\* str.lower() on one character and on a text
UpperSet == CharsOf(UpperChars)
lower_map == [c \in UpperSet |->
                 LET i == CHOOSE j \in 1..Len(UpperChars) : SubSeq(UpperChars, j, j) = c
                 IN SubSeq(LowerChars, i, i)]
LowerChar(c) == IF c \in UpperSet THEN lower_map[c] ELSE c

RECURSIVE ToLower(_)
ToLower(s) == IF Len(s) = 0 THEN ""
              ELSE IF Len(s) = 1 THEN LowerChar(s)
              ELSE LET h == Len(s) \div 2
                   IN ToLower(SubSeq(s, 1, h)) \o ToLower(SubSeq(s, h + 1, Len(s)))

\* pat occurs in text at position i
At(text, pat, i) == /\ i >= 1
                    /\ i + Len(pat) - 1 <= Len(text)
                    /\ SubSeq(text, i, i + Len(pat) - 1) = pat

\* Python: pat in text
Contains(text, pat) == \E i \in 1..(Len(text) - Len(pat) + 1) : At(text, pat, i)

\* \b holds between position i-1 and position i of text (1 <= i <= Len+1)
IsWordAt(text, i) == i >= 1 /\ i <= Len(text) /\ SubSeq(text, i, i) \in WordChars
Boundary(text, i) == IsWordAt(text, i - 1) # IsWordAt(text, i)

\* re.search(r'\bpat\b', text) for a literal pat
WordSearch(text, pat) ==
    \E i \in 1..(Len(text) - Len(pat) + 1) :
        At(text, pat, i) /\ Boundary(text, i) /\ Boundary(text, i + Len(pat))

\* re.search(r'\ba\s+b\b', text) for literals a and b
WordSearchWs(text, a, b) ==
    \E i \in 1..Len(text) : \E k \in 1..Len(text) :
        /\ At(text, a, i) /\ Boundary(text, i)
        /\ \A j \in (i + Len(a))..(i + Len(a) + k - 1) :
              j <= Len(text) /\ SubSeq(text, j, j) \in WhiteSpace
        /\ At(text, b, i + Len(a) + k)
        /\ Boundary(text, i + Len(a) + k + Len(b))

\* str.strip()
Strip(s) ==
    IF \A i \in 1..Len(s) : SubSeq(s, i, i) \in WhiteSpace THEN ""
    ELSE LET first == CHOOSE i \in 1..Len(s) :
                         /\ SubSeq(s, i, i) \notin WhiteSpace
                         /\ \A j \in 1..(i - 1) : SubSeq(s, j, j) \in WhiteSpace
             last == CHOOSE i \in 1..Len(s) :
                         /\ SubSeq(s, i, i) \notin WhiteSpace
                         /\ \A j \in (i + 1)..Len(s) : SubSeq(s, j, j) \in WhiteSpace
         IN SubSeq(s, first, last)

\* re.split(r'[,:;]', s)
RECURSIVE Split(_)
Split(s) ==
    LET IsSep(i) == SubSeq(s, i, i) \in {",", ":", ";"}
    IN IF \E i \in 1..Len(s) : IsSep(i)
       THEN LET i == CHOOSE k \in 1..Len(s) : IsSep(k) /\ \A j \in 1..(k - 1) : ~IsSep(j)
            IN <<SubSeq(s, 1, i - 1)>> \o Split(SubSeq(s, i + 1, Len(s)))
       ELSE <<s>>

\* a < b as Python compares str
RECURSIVE StrLess(_, _)
StrLess(a, b) ==
    IF Len(b) = 0 THEN FALSE
    ELSE IF Len(a) = 0 THEN TRUE
    ELSE LET ca == CharCode(SubSeq(a, 1, 1))
             cb == CharCode(SubSeq(b, 1, 1))
         IN IF ca # cb THEN ca < cb
            ELSE StrLess(SubSeq(a, 2, Len(a)), SubSeq(b, 2, Len(b)))

\* sorted(S) for a set of texts
RECURSIVE Sorted(_)
Sorted(S) == IF S = {} THEN <<>>
             ELSE LET m == CHOOSE x \in S : \A y \in S \ {x} : StrLess(x, y)
                  IN <<m>> \o Sorted(S \ {m})

\* sep.join(seq)
RECURSIVE Join(_, _)
Join(sep, seq) == IF Len(seq) = 0 THEN ""
                  ELSE IF Len(seq) = 1 THEN seq[1]
                  ELSE seq[1] \o sep \o Join(sep, Tail(seq))

\* any(p in text for p in pats)
AnyIn(text, pats) == \E p \in pats : Contains(text, p)

\* x in seq
InSeq(x, seq) == \E i \in 1..Len(seq) : seq[i] = x

\* seq[:n]
Take(seq, n) == SubSeq(seq, 1, IF Len(seq) < n THEN Len(seq) ELSE n)

\* list(dict.fromkeys(seq)): first occurrences, in order
RECURSIVE Dedup(_)
Dedup(seq) == IF Len(seq) = 0 THEN <<>>
              ELSE LET front == Dedup(SubSeq(seq, 1, Len(seq) - 1))
                       x == seq[Len(seq)]
                   IN IF InSeq(x, front) THEN front ELSE Append(front, x)

(***************************************************************************)
(* Inputs: the messages a client sends, the data files the bot loads        *)
(***************************************************************************)
\* bodies of POST /api/chat: the 'message' field ("" also stands for a
\* request without the field, app.py line 19)
Msgs == { "",
          "Hello",
          "Hi, I have severe stomach pain and fever",
          "my stomach hurts",
          "tell me more",
          "what's the capital of France",
          "I have mild pain in my lower right abdomen since yesterday",
          "now I also feel nauseous",
          "I am vomiting blood",
          "severe pain with fever, nausea and vomiting for 2 days",
          "any home remedy?",
          "What causes abdominal pain?" }

\* messages that hit several keyword groups of lines 335-341 at once, with
\* the messages that lead a session to them
DispatchMsgs == { "",
                  "Hello",
                  "tell me more",
                  "severe pain with fever",
                  "why do I have these signs, is it urgent, what can help my mild pain",
                  "signs of an emergency, any treatment for mild pain",
                  "should I see a doctor or try a home remedy",
                  "any home remedy?" }

\* messages about the pain with two words of, or near, the severity
\* vocabulary of lines 208-213, in either order
SeverityWords == {"mild", "moderate", "severe", "worst", "MILD", "sharp"}
SeverityMsgs == {"the pain is " \o a \o ", at times " \o b : a, b \in SeverityWords}

\* messages that bring fever or a severity into the case, or have a word of
\* the wider vocabulary of line 351 only, with the messages around them
TriageMsgs == { "",
                "Hello",
                "tell me more",
                "any home remedy?",
                "severe pain with fever, nausea and vomiting for 2 days",
                "I have mild pain in my lower right abdomen since yesterday",
                "the pain is worst, at times severe",
                "I feel nausea and cramps" }

AllMsgs == Msgs \cup DispatchMsgs \cup SeverityMsgs \cup TriageMsgs

\* _load_medical_data: the structure used when the data file is missing
FallbackData == [ causes |-> <<>>,
                  emergency_symptoms |-> <<>>,
                  home_remedies |-> <<>> ]

\* the data file written by data_scraper.py (five of its ten causes)
ScrapedData ==
  [ causes |-> <<
      [condition |-> "Indigestion",
       description |-> "Discomfort or burning in the upper abdomen, often after eating",
       symptoms |-> <<"Bloating", "Nausea", "Feeling full quickly", "Burping">>],
      [condition |-> "Food poisoning",
       description |-> "Illness caused by eating contaminated food",
       symptoms |-> <<"Nausea", "Vomiting", "Diarrhea", "Fever", "Stomach cramps">>],
      [condition |-> "Gastroenteritis (Stomach flu)",
       description |-> "Inflammation of the stomach and intestines",
       symptoms |-> <<"Watery diarrhea", "Nausea", "Vomiting", "Stomach cramps", "Fever">>],
      [condition |-> "Appendicitis",
       description |-> "Inflammation of the appendix",
       symptoms |-> <<"Sudden pain in lower right abdomen", "Nausea", "Vomiting", "Loss of appetite", "Fever", "Pain that worsens with movement">>],
      [condition |-> "Gallstones",
       description |-> "Hardened deposits in the gallbladder",
       symptoms |-> <<"Sudden, intense pain in upper right abdomen", "Pain in right shoulder", "Nausea", "Vomiting", "Back pain">>] >>,
    emergency_symptoms |-> <<
      "Severe, sudden abdominal pain",
      "Pain with fever",
      "Pain with vomiting blood",
      "Pain with black, tarry stools",
      "Pain that lasts more than 24 hours",
      "Pain that gets worse over time",
      "Pain with difficulty breathing",
      "Pain with chest pressure",
      "Pain with dizziness or fainting",
      "Pain with rapid heartbeat" >>,
    home_remedies |-> <<
      [remedy |-> "Rest", description |-> "Avoid strenuous activity and get plenty of rest"],
      [remedy |-> "Heat therapy", description |-> "Apply a heating pad or warm compress to the affected area"],
      [remedy |-> "Hydration", description |-> "Drink clear fluids like water, broth, or clear juices"],
      [remedy |-> "Bland diet", description |-> "Eat bland foods like rice, toast, bananas, and applesauce"],
      [remedy |-> "Avoid irritants", description |-> "Stay away from spicy, fatty, or acidic foods"],
      [remedy |-> "Over-the-counter medications", description |-> "Consider antacids, pain relievers, or anti-diarrheal medications as appropriate"] >> ]

\* a hand-edited data file: terse emergency phrases (one of them twice, in
\* different case), two causes, one remedy
TerseData ==
  [ causes |-> <<
      [condition |-> "Gas", description |-> "Trapped wind", symptoms |-> <<"Bloating">>],
      [condition |-> "Ulcers", description |-> "Sores in the stomach lining", symptoms |-> <<"Heartburn", "Nausea">>] >>,
    emergency_symptoms |-> <<
      "Fever", "Vomiting; Nausea", "FEVER", "Severe: worst pain", "2 days", "Lower right" >>,
    home_remedies |-> <<
      [remedy |-> "Rest", description |-> "Get plenty of rest"] >> ]

DataFiles == {FallbackData, ScrapedData, TerseData}

\* the encoder __init__ loads: the fine-tuned directory if present, else the
\* stock model
Models == {"fine_tuned_symptom_checker", "all-MiniLM-L6-v2"}

\* the conversations that may talk to the process; the request of app.py
\* lines 17-19 has no field that tells them apart
Conversations == {"A", "B"}

(***************************************************************************)
(* SymptomCheckerBot: constants set by __init__                             *)
(***************************************************************************)
\* the alternatives of greeting_patterns[0], and patterns 1..3
greeting_words == {"hi", "hello", "hey", "good morning", "good afternoon", "good evening"}
greeting_phrases == {"how are you", "what's up", "how's it going"}

greetings == <<
  "Hello! I'm your symptom checker assistant. I'm here to help you understand abdominal pain and related symptoms. How can I assist you today?",
  "Hi there! I'm a medical AI assistant specializing in abdominal pain. I can help answer your questions about symptoms, causes, and when to seek medical attention. What would you like to know?",
  "Hello! I'm here to help you with questions about abdominal pain in adults. I can provide information about causes, symptoms, and treatment options. How may I help you?" >>

\* the templated lists (the bullet character is written "* ")
abdominal_pain_responses ==
  [ causes |-> <<
      "Abdominal pain in adults can be caused by various factors including:",
      "* Indigestion or heartburn", "* Food poisoning", "* Stomach flu (gastroenteritis)",
      "* Irritable bowel syndrome (IBS)", "* Constipation", "* Gas and bloating",
      "* Appendicitis", "* Gallstones", "* Kidney stones", "* Ulcers",
      "* Inflammatory bowel disease (IBD)" >>,
    symptoms |-> <<
      "Common symptoms associated with abdominal pain include:",
      "* Cramping or sharp pain", "* Nausea and vomiting", "* Loss of appetite", "* Fever",
      "* Diarrhea or constipation", "* Bloating", "* Heartburn",
      "* Pain that radiates to other areas" >>,
    when_to_seek_help |-> <<
      "Seek immediate medical attention if you experience:",
      "* Severe, sudden abdominal pain", "* Pain with fever", "* Pain with vomiting blood",
      "* Pain with black, tarry stools", "* Pain that lasts more than 24 hours",
      "* Pain that gets worse over time", "* Pain with difficulty breathing",
      "* Pain with chest pressure" >>,
    home_remedies |-> <<
      "For mild abdominal pain, you can try:",
      "* Rest and avoid strenuous activity", "* Apply a heating pad to the area",
      "* Drink clear fluids (water, broth)", "* Eat bland foods (rice, toast, bananas)",
      "* Avoid spicy, fatty, or acidic foods",
      "* Take over-the-counter pain relievers if appropriate",
      "* Practice relaxation techniques" >> ]

\* the refusal of get_response
Refusal == "I apologize, but I'm specifically trained to help with abdominal pain in adults. I can provide information about causes, symptoms, when to seek medical attention, and home remedies related to abdominal pain. Please ask me about abdominal pain or related symptoms."

\* current_case as __init__ creates it
EmptyCase == [ onset |-> None, location |-> None, severity |-> None,
               associated_symptoms |-> {}, duration |-> None ]

(***************************************************************************)
(* GreetingClassifier                                                       *)
(***************************************************************************)
_is_greeting(message) ==
    LET message_lower == ToLower(message)
    IN \/ \E w \in greeting_words : WordSearch(message_lower, w)
       \/ \E p \in greeting_phrases : WordSearch(message_lower, p)

(***************************************************************************)
(* FactExtractor                                                            *)
(***************************************************************************)
\* the length of (\d+|one|two|three|four|five) matched at position i, or 0
NumberLenAt(text, i) ==
    IF i <= Len(text) /\ SubSeq(text, i, i) \in DigitChars
    THEN CHOOSE n \in 1..(Len(text) - i + 1) :
            /\ \A j \in i..(i + n - 1) : SubSeq(text, j, j) \in DigitChars
            /\ ~(i + n <= Len(text) /\ SubSeq(text, i + n, i + n) \in DigitChars)
    ELSE IF At(text, "one", i) THEN 3
    ELSE IF At(text, "two", i) THEN 3
    ELSE IF At(text, "three", i) THEN 5
    ELSE IF At(text, "four", i) THEN 4
    ELSE IF At(text, "five", i) THEN 4
    ELSE 0

\* the length of \s* matched (greedily) at position i
SpaceLenAt(text, i) ==
    CHOOSE n \in 0..Len(text) :
        /\ \A j \in i..(i + n - 1) : j <= Len(text) /\ SubSeq(text, j, j) \in WhiteSpace
        /\ ~(i + n <= Len(text) /\ SubSeq(text, i + n, i + n) \in WhiteSpace)

\* the length of (hour|hours|day|days)\b matched at position i, or 0
UnitLenAt(text, i) ==
    IF At(text, "hour", i) /\ Boundary(text, i + 4) THEN 4
    ELSE IF At(text, "hours", i) /\ Boundary(text, i + 5) THEN 5
    ELSE IF At(text, "day", i) /\ Boundary(text, i + 3) THEN 3
    ELSE IF At(text, "days", i) /\ Boundary(text, i + 4) THEN 4
    ELSE 0

\* the length of the match of the duration pattern starting at i, or 0
DurationLenAt(text, i) ==
    IF ~Boundary(text, i) THEN 0
    ELSE LET n == NumberLenAt(text, i)
         IN IF n = 0 THEN 0
            ELSE LET s == SpaceLenAt(text, i + n)
                     u == UnitLenAt(text, i + n + s)
                 IN IF u = 0 THEN 0 ELSE n + s + u

\* m.group(0) of the leftmost match, or None
DurationMatch(text) ==
    IF \E i \in 1..Len(text) : DurationLenAt(text, i) > 0
    THEN LET i == CHOOSE k \in 1..Len(text) :
                     /\ DurationLenAt(text, k) > 0
                     /\ \A j \in 1..(k - 1) : DurationLenAt(text, j) = 0
         IN SubSeq(text, i, i + DurationLenAt(text, i) - 1)
    ELSE None

location_map == <<
    [label |-> "upper right", patterns |-> {"upper right", "right upper", "ruq"}],
    [label |-> "upper left", patterns |-> {"upper left", "left upper", "luq"}],
    [label |-> "lower right", patterns |-> {"lower right", "right lower", "rlq"}],
    [label |-> "lower left", patterns |-> {"lower left", "left lower", "llq"}],
    [label |-> "upper abdomen", patterns |-> {"upper abdomen", "upper stomach"}],
    [label |-> "lower abdomen", patterns |-> {"lower abdomen", "lower stomach"}],
    [label |-> "whole abdomen", patterns |-> {"whole abdomen", "entire abdomen", "all over", "whole stomach"}] >>

assoc_terms == {"nausea", "vomiting", "diarrhea", "constipation", "fever", "bloating",
                "heartburn", "gas", "loss of appetite", "back pain", "shoulder pain"}

ExtractOnset(text) ==
    IF WordSearch(text, "yesterday") \/ WordSearchWs(text, "last", "night") THEN "yesterday"
    ELSE IF \/ \E w \in {"today", "now", "just", "since"} : WordSearch(text, w)
            \/ WordSearchWs(text, "this", "morning")
            \/ WordSearchWs(text, "this", "evening")
         THEN "today"
    ELSE None

ExtractLocation(text) ==
    IF \E i \in 1..Len(location_map) : AnyIn(text, location_map[i].patterns)
    THEN LET i == CHOOSE k \in 1..Len(location_map) :
                     /\ AnyIn(text, location_map[k].patterns)
                     /\ \A j \in 1..(k - 1) : ~AnyIn(text, location_map[j].patterns)
         IN location_map[i].label
    ELSE None

\* variant of ExtractSeverity that tests 'severe' and 'worst' first
ExtractSeverity_severe_first(text) ==
    IF Contains(text, "severe") \/ Contains(text, "worst") THEN "severe"
    ELSE IF Contains(text, "mild") THEN "mild"
    ELSE IF Contains(text, "moderate") THEN "moderate"
    ELSE None

ExtractSeverity(text) ==
    IF Contains(text, "mild") THEN "mild"
    ELSE IF Contains(text, "moderate") THEN "moderate"
    ELSE IF Contains(text, "severe") \/ Contains(text, "worst") THEN "severe"
    ELSE None

ExtractSymptoms(text) ==
    LET found == {term \in assoc_terms : Contains(text, term)}
    IN IF Contains(text, "vomit") /\ "vomiting" \notin found
       THEN found \cup {"vomiting"}
       ELSE found

_extract_structured_facts(message) ==
    LET text == ToLower(message)
    IN [ onset |-> ExtractOnset(text),
         location |-> ExtractLocation(text),
         severity |-> ExtractSeverity(text),
         associated_symptoms |-> ExtractSymptoms(text),
         duration |-> DurationMatch(text) ]

(***************************************************************************)
(* CaseState                                                                *)
(***************************************************************************)
\* variants of _update_case_state with a slip in one assignment
_update_case_state_replaces(case, facts) ==
    [ onset |-> IF Truthy(facts.onset) THEN facts.onset ELSE case.onset,
      location |-> IF Truthy(facts.location) THEN facts.location ELSE case.location,
      severity |-> IF Truthy(facts.severity) THEN facts.severity ELSE case.severity,
      duration |-> IF Truthy(facts.duration) THEN facts.duration ELSE case.duration,
      associated_symptoms |->
          IF facts.associated_symptoms # {}
          THEN facts.associated_symptoms
          ELSE case.associated_symptoms ]

_update_case_state_unguarded(case, facts) ==
    [ onset |-> IF Truthy(facts.onset) THEN facts.onset ELSE case.onset,
      location |-> IF Truthy(facts.location) THEN facts.location ELSE case.location,
      severity |-> facts.severity,
      duration |-> IF Truthy(facts.duration) THEN facts.duration ELSE case.duration,
      associated_symptoms |->
          IF facts.associated_symptoms # {}
          THEN case.associated_symptoms \cup facts.associated_symptoms
          ELSE case.associated_symptoms ]

_update_case_state(case, facts) ==
    [ onset |-> IF Truthy(facts.onset) THEN facts.onset ELSE case.onset,
      location |-> IF Truthy(facts.location) THEN facts.location ELSE case.location,
      severity |-> IF Truthy(facts.severity) THEN facts.severity ELSE case.severity,
      duration |-> IF Truthy(facts.duration) THEN facts.duration ELSE case.duration,
      associated_symptoms |->
          IF facts.associated_symptoms # {}
          THEN case.associated_symptoms \cup facts.associated_symptoms
          ELSE case.associated_symptoms ]

_case_summary_text(case) ==
    LET parts ==
          (IF Truthy(case.onset) THEN <<"onset " \o case.onset>> ELSE <<>>)
          \o (IF Truthy(case.duration) THEN <<"duration " \o case.duration>> ELSE <<>>)
          \o (IF Truthy(case.location) THEN <<"location " \o case.location>> ELSE <<>>)
          \o (IF Truthy(case.severity) THEN <<"severity " \o case.severity>> ELSE <<>>)
          \o (IF case.associated_symptoms # {}
              THEN <<"symptoms " \o Join(", ", Sorted(case.associated_symptoms))>>
              ELSE <<>>)
    IN IF Len(parts) = 0 THEN "abdominal pain" ELSE Join("; ", parts)

(***************************************************************************)
(* RedFlagDetector                                                          *)
(***************************************************************************)
\* the emergency phrases of the data files; their lower-cased form and the
\* stripped pieces of re.split(r'[,:;]', item) are computed once per phrase
EmergencyTexts == UNION { {d.emergency_symptoms[i] : i \in 1..Len(d.emergency_symptoms)} :
                          d \in DataFiles }
lowered == [s \in EmergencyTexts |-> ToLower(s)]
terms_of == [item \in {lowered[s] : s \in EmergencyTexts} |->
                LET pieces == Split(item)
                IN [i \in 1..Len(pieces) |-> Strip(pieces[i])]]

\* any(term and term in text for term in terms)
EmergencyHit(item, text) ==
    \E i \in 1..Len(terms_of[item]) :
        LET term == terms_of[item][i] IN term # "" /\ Contains(text, term)

RECURSIVE FlagsFrom(_, _, _)
FlagsFrom(emergencies, text, i) ==
    IF i > Len(emergencies) THEN <<>>
    ELSE (IF EmergencyHit(emergencies[i], text) THEN <<emergencies[i]>> ELSE <<>>)
         \o FlagsFrom(emergencies, text, i + 1)

\* variant of _red_flag_check without the rule of lines 277-278
_red_flag_check_no_fever(case, data) ==
    LET emergencies == [i \in 1..Len(data.emergency_symptoms) |->
                           lowered[data.emergency_symptoms[i]]]
        text == ToLower(_case_summary_text(case))
        flags == FlagsFrom(emergencies, text, 1)
                 \o (IF case.severity = "severe" THEN <<"Severe abdominal pain">> ELSE <<>>)
                 \o (IF "vomiting" \in case.associated_symptoms /\ Contains(text, "blood")
                     THEN <<"Vomiting blood">> ELSE <<>>)
    IN Dedup(flags)

\* variant of _red_flag_check that returns only the first five flags
_red_flag_check_truncates(case, data) ==
    LET emergencies == [i \in 1..Len(data.emergency_symptoms) |->
                           lowered[data.emergency_symptoms[i]]]
        text == ToLower(_case_summary_text(case))
        flags == FlagsFrom(emergencies, text, 1)
                 \o (IF case.severity = "severe" THEN <<"Severe abdominal pain">> ELSE <<>>)
                 \o (IF "fever" \in case.associated_symptoms THEN <<"Pain with fever">> ELSE <<>>)
                 \o (IF "vomiting" \in case.associated_symptoms /\ Contains(text, "blood")
                     THEN <<"Vomiting blood">> ELSE <<>>)
    IN Take(Dedup(flags), 5)

_red_flag_check(case, data) ==
    LET emergencies == [i \in 1..Len(data.emergency_symptoms) |->
                           lowered[data.emergency_symptoms[i]]]
        text == ToLower(_case_summary_text(case))
        flags == FlagsFrom(emergencies, text, 1)
                 \o (IF case.severity = "severe" THEN <<"Severe abdominal pain">> ELSE <<>>)
                 \o (IF "fever" \in case.associated_symptoms THEN <<"Pain with fever">> ELSE <<>>)
                 \o (IF "vomiting" \in case.associated_symptoms /\ Contains(text, "blood")
                     THEN <<"Vomiting blood">> ELSE <<>>)
    IN Dedup(flags)

(***************************************************************************)
(* CauseRanker                                                              *)
(***************************************************************************)
\* The embedding provider (SentenceTransformer.encode followed by
\* cosine_similarity) is an external library: a fixed model maps equal texts
\* to equal scores.  It is abstracted to a deterministic integer score.
\* To run the ranker on every combination of scores there are also stub
\* encoders: the name of a stub lists, after "stub:", the score it gives to
\* the first, second, ... cause of a stub data file, whatever the case text.
ScoreDigits == "012"

RECURSIVE StubNames(_)
StubNames(n) ==
    IF n = 0 THEN {"stub:"}
    ELSE {w \o SubSeq(ScoreDigits, d, d) : w \in StubNames(n - 1), d \in 1..Len(ScoreDigits)}

StubModels == StubNames(MaxCauses)

DigitValue(c) == CHOOSE d \in 0..9 : SubSeq(Digits, d + 1, d + 1) = c

\* the i-th cause of a stub data file: its condition is the digit i
StubCause(i) ==
    [condition |-> SubSeq(Digits, i + 1, i + 1),
     description |-> "cause number " \o SubSeq(Digits, i + 1, i + 1),
     symptoms |-> <<>>]

StubFiles ==
    { [ causes |-> [i \in 1..n |-> StubCause(i)],
        emergency_symptoms |-> <<>>,
        home_remedies |-> <<>> ] : n \in 0..MaxCauses }

StubScore(mdl, text) ==
    LET i == DigitValue(SubSeq(text, 1, 1))
    IN DigitValue(SubSeq(mdl, Len("stub:") + i, Len("stub:") + i))

Similarity(mdl, case_text, cause_text) ==
    IF mdl \in Models
    THEN LET k == IF mdl = "all-MiniLM-L6-v2" THEN 1 ELSE 2
             d == (k * Len(case_text) + Len(cause_text)) % 4
         IN d
    ELSE StubScore(mdl, cause_text)

cause_text(c) ==
    c.condition \o ". " \o c.description \o ". Symptoms: " \o Join(", ", c.symptoms)

\* variant of SortedDesc that puts equal scores in reverse order
RECURSIVE SortedDesc_reverses_ties(_, _)
SortedDesc_reverses_ties(sims, rest) ==
    IF rest = {} THEN <<>>
    ELSE LET best == CHOOSE i \in rest :
                        \A j \in rest : sims[i] > sims[j] \/ (sims[i] = sims[j] /\ i >= j)
         IN <<best>> \o SortedDesc_reverses_ties(sims, rest \ {best})

\* sorted(range, key=score, reverse=True): descending, equal scores in
\* their original order
RECURSIVE SortedDesc(_, _)
SortedDesc(sims, rest) ==
    IF rest = {} THEN <<>>
    ELSE LET best == CHOOSE i \in rest :
                        \A j \in rest : sims[i] > sims[j] \/ (sims[i] = sims[j] /\ i <= j)
         IN <<best>> \o SortedDesc(sims, rest \ {best})

\* variant of EncodeCalls without the test of line 256
EncodeCalls_unguarded(case, data) ==
    LET causes == data.causes
    IN << <<_case_summary_text(case)>>,
          [i \in 1..Len(causes) |-> cause_text(causes[i])] >>

\* the calls of self.model.encode one run of _rank_causes makes (lines 256,
\* 259, 260), each given as the batch of texts it is called with
EncodeCalls(case, data) ==
    LET causes == data.causes
    IN IF Len(causes) = 0 THEN <<>>
       ELSE << <<_case_summary_text(case)>>,
               [i \in 1..Len(causes) |-> cause_text(causes[i])] >>

_rank_causes(case, data, mdl) ==
    LET causes == data.causes
    IN IF Len(causes) = 0 THEN <<>>
       ELSE LET case_text == _case_summary_text(case)
                sims == [i \in 1..Len(causes) |->
                            Similarity(mdl, case_text, cause_text(causes[i]))]
                order == SortedDesc(sims, 1..Len(causes))
                ranked == [k \in 1..Len(causes) |->
                            [cause |-> causes[order[k]], score |-> sims[order[k]]]]
            IN Take(ranked, 3)

(***************************************************************************)
(* ResponseComposer                                                         *)
(* A reply is the sequence of its lines; each line carries the statement    *)
(* that appended it (kind) and its text.                                    *)
(***************************************************************************)
Line(kind, text) == [kind |-> kind, text |-> text]

\* lines 297-307: the urgent-care block or the self-care block
CareBlock_shows_all(red_flags, home_remedies) ==
    IF Len(red_flags) > 0
    THEN <<Line("urgent", "Based on red-flag symptoms, I recommend urgent medical attention:")>>
         \o [k \in 1..Len(red_flags) |-> Line("flag", "* " \o red_flags[k])]
    ELSE IF Len(home_remedies) > 0
    THEN <<Line("selfcare", "Self-care that may help for mild symptoms:")>>
         \o [k \in 1..Len(home_remedies) |->
               Line("remedy", "* " \o home_remedies[k].remedy \o ": " \o home_remedies[k].description)]
    ELSE <<>>

CareBlock(red_flags, home_remedies) ==
    LET shown == Take(red_flags, 5)
        remedies == Take(home_remedies, 4)
    IN IF Len(red_flags) > 0
       THEN <<Line("urgent", "Based on red-flag symptoms, I recommend urgent medical attention:")>>
            \o [k \in 1..Len(shown) |-> Line("flag", "* " \o shown[k])]
       ELSE IF Len(home_remedies) > 0
       THEN <<Line("selfcare", "Self-care that may help for mild symptoms:")>>
            \o [k \in 1..Len(remedies) |->
                  Line("remedy", "* " \o remedies[k].remedy \o ": " \o remedies[k].description)]
       ELSE <<>>

\* variant of _build_analysis_response that asks for the missing facts before
\* the care block
_build_analysis_response_asks_first(case, data, mdl) ==
    LET summary == _case_summary_text(case)
        red_flags == _red_flag_check(case, data)
        ranked == _rank_causes(case, data, mdl)
        header == <<Line("header", "Thanks for the details. From what you've shared ("
                           \o summary
                           \o "), here are the most likely possibilities based on my training data:")>>
        causes == IF Len(ranked) > 0
                  THEN [k \in 1..Len(ranked) |->
                          Line("cause", "* " \o ranked[k].cause.condition \o ": "
                                        \o ranked[k].cause.description)]
                  ELSE <<Line("need_detail",
                      "* I need a bit more detail (location, severity, associated symptoms) to narrow causes.")>>
        care == CareBlock(red_flags, data.home_remedies)
        need == (IF ~Truthy(case.location) THEN <<"where exactly the pain is located">> ELSE <<>>)
                \o (IF ~Truthy(case.severity)
                    THEN <<"how severe it feels (mild, moderate, severe)">> ELSE <<>>)
                \o (IF ~Truthy(case.onset) /\ ~Truthy(case.duration)
                    THEN <<"when it started and for how long">> ELSE <<>>)
        followup == IF Len(need) > 0
                    THEN <<Line("followup", "To improve accuracy, please tell me "
                                            \o Join(", ", need) \o ".")>>
                    ELSE <<>>
        footer == <<Line("disclaimer",
            "Note: I share general information about abdominal pain in adults and don't replace a clinician.")>>
    IN header \o causes \o followup \o care \o footer

_build_analysis_response(case, data, mdl) ==
    LET summary == _case_summary_text(case)
        red_flags == _red_flag_check(case, data)
        ranked == _rank_causes(case, data, mdl)
        header == <<Line("header", "Thanks for the details. From what you've shared ("
                           \o summary
                           \o "), here are the most likely possibilities based on my training data:")>>
        causes == IF Len(ranked) > 0
                  THEN [k \in 1..Len(ranked) |->
                          Line("cause", "* " \o ranked[k].cause.condition \o ": "
                                        \o ranked[k].cause.description)]
                  ELSE <<Line("need_detail",
                      "* I need a bit more detail (location, severity, associated symptoms) to narrow causes.")>>
        care == CareBlock(red_flags, data.home_remedies)
        need == (IF ~Truthy(case.location) THEN <<"where exactly the pain is located">> ELSE <<>>)
                \o (IF ~Truthy(case.severity)
                    THEN <<"how severe it feels (mild, moderate, severe)">> ELSE <<>>)
                \o (IF ~Truthy(case.onset) /\ ~Truthy(case.duration)
                    THEN <<"when it started and for how long">> ELSE <<>>)
        followup == IF Len(need) > 0
                    THEN <<Line("followup", "To improve accuracy, please tell me "
                                            \o Join(", ", need) \o ".")>>
                    ELSE <<>>
        footer == <<Line("disclaimer",
            "Note: I share general information about abdominal pain in adults and don't replace a clinician.")>>
    IN header \o causes \o care \o followup \o footer

(***************************************************************************)
(* DialogueOrchestrator                                                     *)
(***************************************************************************)
\* the word lists of lines 335, 337, 339 and 341, by the key of
\* abdominal_pain_responses each one selects
group_keywords ==
    [ causes |-> {"cause", "causes", "why", "reason"},
      symptoms |-> {"symptom", "symptoms", "sign", "signs"},
      when_to_seek_help |-> {"emergency", "urgent", "hospital", "doctor", "medical attention"},
      home_remedies |-> {"home", "remedy", "treatment", "cure", "help"} ]

\* variant of DirectGroup that tests the symptoms list before the causes list
DirectGroup_symptoms_first(message) ==
    LET message_lower == ToLower(message)
    IN IF AnyIn(message_lower, group_keywords.symptoms) THEN "symptoms"
       ELSE IF AnyIn(message_lower, group_keywords.causes) THEN "causes"
       ELSE IF AnyIn(message_lower, group_keywords.when_to_seek_help) THEN "when_to_seek_help"
       ELSE IF AnyIn(message_lower, group_keywords.home_remedies) THEN "home_remedies"
       ELSE None

\* the key of abdominal_pain_responses the message asks for, or None
DirectGroup(message) ==
    LET message_lower == ToLower(message)
    IN IF AnyIn(message_lower, group_keywords.causes) THEN "causes"
       ELSE IF AnyIn(message_lower, group_keywords.symptoms) THEN "symptoms"
       ELSE IF AnyIn(message_lower, group_keywords.when_to_seek_help) THEN "when_to_seek_help"
       ELSE IF AnyIn(message_lower, group_keywords.home_remedies) THEN "home_remedies"
       ELSE None

\* '\n'.join(self.abdominal_pain_responses[group])
DirectReply(group) ==
    [k \in 1..Len(abdominal_pain_responses[group]) |->
        Line(group, abdominal_pain_responses[group][k])]

abdominal_keywords == {"abdominal", "stomach", "belly", "gut", "pain", "ache", "cramp",
                       "indigestion", "heartburn", "nausea", "vomiting", "diarrhea",
                       "constipation", "bloating", "gas", "appendicitis", "ulcer"}

scope_keywords == {"abdominal", "stomach", "belly", "gut", "pain"}

\* variant of _is_out_of_scope that does not look at session_in_scope
_is_out_of_scope_forgets(message, in_scope) ==
    LET message_lower == ToLower(message)
        has_abdominal_keywords == AnyIn(message_lower, abdominal_keywords)
    IN ~(has_abdominal_keywords \/ _is_greeting(message))

_is_out_of_scope(message, in_scope) ==
    LET message_lower == ToLower(message)
        has_abdominal_keywords == AnyIn(message_lower, abdominal_keywords)
    IN ~(has_abdominal_keywords \/ in_scope \/ _is_greeting(message))

\* variant of lines 369-372 that marks the session without the keyword test
MarkScope_always(message, in_scope) == TRUE

\* session_in_scope after lines 369-372 of get_response
MarkScope(message, in_scope) ==
    IF ~in_scope /\ AnyIn(ToLower(message), scope_keywords) THEN TRUE ELSE in_scope

(***************************************************************************)
(* State                                                                    *)
(***************************************************************************)
VARIABLES
    model,                  \* self.model: the encoder loaded by __init__
    medical_data,           \* self.medical_data
    conversation_history,   \* self.conversation_history
    session_in_scope,       \* self.session_in_scope
    current_case,           \* self.current_case
    http_response,          \* what chat() returned for the last request
    callers,                \* callers[i]: the conversation whose request is entry i
                            \* of conversation_history (the request carries no
                            \* identifier: app.py lines 17-19)
    encode_calls,           \* the batches self.model.encode was called with while
                            \* the last request was served
    threads                 \* per conversation, the thread serving its request:
                            \* where it is in get_response, its locals message and
                            \* response, and the index of the entry it appended

vars == <<model, medical_data, conversation_history, session_in_scope,
          current_case, http_response, callers, encode_calls, threads>>

\* no request is being served
NoThread ==
    [t \in Conversations |-> [pc |-> "idle", message |-> None, response |-> <<>>, entry |-> 0]]

\* jsonify({'response': r}) with status 200, jsonify({'error': e}) with 400/500
\* (an answer without reply has the empty sequence of lines as response)
Ok(reply) == [status |-> 200, response |-> reply, error |-> None]
Err(code, text) == [status |-> code, response |-> <<>>, error |-> text]

Init ==
    /\ model \in Models
    /\ medical_data \in DataFiles
    /\ conversation_history = <<>>
    /\ session_in_scope = FALSE
    /\ current_case = EmptyCase
    /\ http_response = [status |-> 0, response |-> <<>>, error |-> None]
    /\ callers = <<>>
    /\ encode_calls = <<>>
    /\ threads = NoThread

(***************************************************************************)
(* POST /api/chat: chat() and the path get_response takes                   *)
(***************************************************************************)
\* What the pure tests of a turn give for each message, computed once per
\* message: _is_greeting, lines 369-372 and _is_out_of_scope for either value
\* of session_in_scope, the keyword group of lines 335-342, and
\* _extract_structured_facts.
of_message ==
    [m \in AllMsgs |->
        [ greeting |-> _is_greeting(m),
          marked |-> [b \in BOOLEAN |-> MarkScope(m, b)],
          out_of_scope |-> [b \in BOOLEAN |-> _is_out_of_scope(m, b)],
          group |-> DirectGroup(m),
          facts |-> _extract_structured_facts(m) ]]

\* the request reaches get_response
Accepted(message) == Truthy(message) /\ Len(conversation_history) < MaxTurns

\* line 362 followed by conversation_history[-1]['bot'] = response
Recorded(message, response) ==
    Append(conversation_history, [user |-> message, timestamp |-> None, bot |-> response])

\* variant of chat() that hands the message to get_response before testing it
InvalidInput_records(conv, message) ==
    /\ ~Truthy(message)
    /\ http_response' = Err(400, "Message is required")
    /\ conversation_history' =
          Append(conversation_history, [user |-> message, timestamp |-> None])
    /\ callers' = Append(callers, conv)
    /\ encode_calls' = <<>>
    /\ UNCHANGED <<model, medical_data, session_in_scope, current_case, threads>>

\* app.py lines 21-22: empty or missing message
InvalidInput(conv, message) ==
    /\ ~Truthy(message)
    /\ http_response' = Err(400, "Message is required")
    /\ encode_calls' = <<>>
    /\ UNCHANGED <<model, medical_data, conversation_history, session_in_scope, current_case,
                   callers, threads>>

\* variant of get_response that marks the scope before the greeting test
Greeting_marks_scope(conv, message) ==
    /\ Accepted(message)
    /\ of_message[message].greeting
    /\ \E g \in 1..Len(greetings) :
          LET response == <<Line("greeting", greetings[g])>>
          IN /\ conversation_history' = Recorded(message, response)
             /\ http_response' = Ok(response)
    /\ session_in_scope' = of_message[message].marked[session_in_scope]
    /\ callers' = Append(callers, conv)
    /\ encode_calls' = <<>>
    /\ UNCHANGED <<model, medical_data, current_case, threads>>

\* get_response lines 362-366
Greeting(conv, message) ==
    /\ Accepted(message)
    /\ of_message[message].greeting
    /\ \E g \in 1..Len(greetings) :
          LET response == <<Line("greeting", greetings[g])>>
          IN /\ conversation_history' = Recorded(message, response)
             /\ http_response' = Ok(response)
    /\ callers' = Append(callers, conv)
    /\ encode_calls' = <<>>
    /\ UNCHANGED <<model, medical_data, session_in_scope, current_case, threads>>

\* get_response lines 362, 368-379
OutOfScope(conv, message) ==
    /\ Accepted(message)
    /\ ~of_message[message].greeting
    /\ LET marked == of_message[message].marked[session_in_scope]
           response == <<Line("refusal", Refusal)>>
       IN /\ of_message[message].out_of_scope[marked]
          /\ session_in_scope' = marked
          /\ conversation_history' = Recorded(message, response)
          /\ http_response' = Ok(response)
    /\ callers' = Append(callers, conv)
    /\ encode_calls' = <<>>
    /\ UNCHANGED <<model, medical_data, current_case, threads>>

\* the request passes the greeting test and the scope gate
InScope(message) ==
    /\ Accepted(message)
    /\ ~of_message[message].greeting
    /\ ~of_message[message].out_of_scope[of_message[message].marked[session_in_scope]]

\* get_response lines 362, 368-374, 382-385 with _get_abdominal_pain_response
\* lines 335-342
DirectLookup(conv, message) ==
    /\ InScope(message)
    /\ of_message[message].group # None
    /\ LET response == DirectReply(of_message[message].group)
       IN /\ conversation_history' = Recorded(message, response)
          /\ http_response' = Ok(response)
    /\ session_in_scope' = TRUE
    /\ callers' = Append(callers, conv)
    /\ encode_calls' = <<>>
    /\ UNCHANGED <<model, medical_data, current_case, threads>>

\* variant of CaseAnalysis without the assignment of line 382
CaseAnalysis_skips_mark(conv, message) ==
    /\ InScope(message)
    /\ of_message[message].group = None
    /\ LET facts == of_message[message].facts
           case == _update_case_state(current_case, facts)
           response == _build_analysis_response(case, medical_data, model)
       IN /\ current_case' = case
          /\ encode_calls' = EncodeCalls(case, medical_data)
          /\ conversation_history' = Recorded(message, response)
          /\ http_response' = Ok(response)
    /\ session_in_scope' = of_message[message].marked[session_in_scope]
    /\ callers' = Append(callers, conv)
    /\ UNCHANGED <<model, medical_data, threads>>

\* get_response lines 362, 368-374, 382-385 with _get_abdominal_pain_response
\* lines 345-347
CaseAnalysis(conv, message) ==
    /\ InScope(message)
    /\ of_message[message].group = None
    /\ LET facts == of_message[message].facts
           case == _update_case_state(current_case, facts)
           response == _build_analysis_response(case, medical_data, model)
       IN /\ current_case' = case
          /\ encode_calls' = EncodeCalls(case, medical_data)
          /\ conversation_history' = Recorded(message, response)
          /\ http_response' = Ok(response)
    /\ session_in_scope' = TRUE
    /\ callers' = Append(callers, conv)
    /\ UNCHANGED <<model, medical_data, threads>>

\* the same path when self.model.encode raises in _rank_causes, in the call
\* of line 259 or in the call of line 260: the exception leaves get_response
\* after lines 362, 382 and 346, and chat() answers 500
EncodeFails(conv, message) ==
    /\ InScope(message)
    /\ of_message[message].group = None
    /\ Len(medical_data.causes) > 0
    /\ LET case == _update_case_state(current_case, of_message[message].facts)
       IN /\ current_case' = case
          /\ \E raising \in 1..2 :
                encode_calls' = Take(EncodeCalls(case, medical_data), raising)
    /\ conversation_history' =
          Append(conversation_history, [user |-> message, timestamp |-> None])
    /\ session_in_scope' = TRUE
    /\ http_response' = Err(500, "encode failed")
    /\ callers' = Append(callers, conv)
    /\ UNCHANGED <<model, medical_data, threads>>

chat(conv, message) ==
    \/ InvalidInput(conv, message)
    \/ Greeting(conv, message)
    \/ OutOfScope(conv, message)
    \/ DirectLookup(conv, message)
    \/ CaseAnalysis(conv, message)
    \/ EncodeFails(conv, message)

\* one conversation talks to the process
Next == \E message \in Msgs : chat("A", message)

Spec == Init /\ [][Next]_vars

(***************************************************************************)
(* Two conversations talking to the one process (app.py line 13: a single   *)
(* SymptomCheckerBot serves every request)                                  *)
(***************************************************************************)
\* the messages the two conversations send
SharedMsgs == { "",
                "Hello",
                "my stomach hurts",
                "tell me more",
                "any home remedy?",
                "severe pain with fever, nausea and vomiting for 2 days" }

SharedNext == \E conv \in Conversations, message \in SharedMsgs : chat(conv, message)

SharedSpec == Init /\ [][SharedNext]_vars

(***************************************************************************)
(* One conversation sending the messages that hit several keyword groups    *)
(***************************************************************************)
DispatchNext == \E message \in DispatchMsgs : chat("A", message)

DispatchSpec == Init /\ [][DispatchNext]_vars

(***************************************************************************)
(* One conversation sending the messages of TriageMsgs                      *)
(***************************************************************************)
TriageNext == \E message \in TriageMsgs : chat("A", message)

TriageSpec == Init /\ [][TriageNext]_vars

(***************************************************************************)
(* The extractor of lines 207-213 on every message of SeverityMsgs, each    *)
(* sent as a turn of a session whose data file has no cause                 *)
(***************************************************************************)
SeverityInit == Init /\ medical_data = FallbackData

SeverityNext == \E message \in SeverityMsgs : CaseAnalysis("A", message)

SeveritySpec == SeverityInit /\ [][SeverityNext]_vars

(***************************************************************************)
(* The analysis of lines 284-321 on every CaseState                         *)
(***************************************************************************)
\* symptoms the CaseStates below draw from
SymptomPool == {"fever", "vomiting", "nausea", "gas"}

CaseStates ==
    [ onset : {None, "today", "yesterday"},
      location : {None} \cup {location_map[i].label : i \in 1..Len(location_map)},
      severity : {None, "mild", "moderate", "severe"},
      associated_symptoms : SUBSET SymptomPool,
      duration : {None, "2 days"} ]

CaseInit ==
    /\ model \in Models
    /\ medical_data \in DataFiles
    /\ conversation_history = <<>>
    /\ session_in_scope = TRUE
    /\ current_case \in CaseStates
    /\ http_response = [status |-> 0, response |-> <<>>, error |-> None]
    /\ callers = <<>>
    /\ encode_calls = <<>>
    /\ threads = NoThread

\* _build_analysis_response on the current case
Analyse ==
    /\ http_response.status = 0
    /\ http_response' = Ok(_build_analysis_response(current_case, medical_data, model))
    /\ encode_calls' = EncodeCalls(current_case, medical_data)
    /\ UNCHANGED <<model, medical_data, conversation_history, session_in_scope, current_case,
                   callers, threads>>

CaseNext == Analyse

CaseSpec == CaseInit /\ [][CaseNext]_vars

(***************************************************************************)
(* The ranker of lines 253-264 on every combination of scores               *)
(***************************************************************************)
RankInit ==
    /\ model \in StubModels
    /\ medical_data \in StubFiles
    /\ conversation_history = <<>>
    /\ session_in_scope = TRUE
    /\ current_case \in {EmptyCase, [EmptyCase EXCEPT !.severity = "severe"]}
    /\ http_response = [status |-> 0, response |-> <<>>, error |-> None]
    /\ callers = <<>>
    /\ encode_calls = <<>>
    /\ threads = NoThread

RankNext == Analyse

RankSpec == RankInit /\ [][RankNext]_vars

(***************************************************************************)
(* Two requests served by two threads on the one bot: get_response in the   *)
(* steps between which the other thread may run.  The step from the test of *)
(* line 363 to the assignment of response is taken as one.                  *)
(***************************************************************************)
ThreadMsgs == {"Hello", "my stomach hurts", "tell me more", "any home remedy?"}

At_(t, pc) == threads[t].pc = pc

\* the thread has computed its response
Computed(t, response) ==
    threads' = [threads EXCEPT ![t].pc = "computed", ![t].response = response]

\* app.py lines 17-25 and get_response line 362
ThreadAppend(t, message) ==
    /\ At_(t, "idle")
    /\ Accepted(message)
    /\ conversation_history' =
          Append(conversation_history, [user |-> message, timestamp |-> None])
    /\ callers' = Append(callers, t)
    /\ threads' = [threads EXCEPT ![t] = [pc |-> "appended", message |-> message,
                                          response |-> <<>>,
                                          entry |-> Len(conversation_history) + 1]]
    /\ UNCHANGED <<model, medical_data, session_in_scope, current_case, http_response,
                   encode_calls>>

\* get_response lines 363-364
ThreadGreeting(t) ==
    /\ At_(t, "appended")
    /\ of_message[threads[t].message].greeting
    /\ \E g \in 1..Len(greetings) : Computed(t, <<Line("greeting", greetings[g])>>)
    /\ UNCHANGED <<model, medical_data, conversation_history, session_in_scope, current_case,
                   http_response, callers, encode_calls>>

\* get_response lines 368-377
ThreadOutOfScope(t) ==
    /\ At_(t, "appended")
    /\ ~of_message[threads[t].message].greeting
    /\ LET marked == of_message[threads[t].message].marked[session_in_scope]
       IN /\ of_message[threads[t].message].out_of_scope[marked]
          /\ session_in_scope' = marked
    /\ Computed(t, <<Line("refusal", Refusal)>>)
    /\ UNCHANGED <<model, medical_data, conversation_history, current_case, http_response,
                   callers, encode_calls>>

\* the thread passes the greeting test and the scope gate
ThreadInScope(t) ==
    /\ At_(t, "appended")
    /\ ~of_message[threads[t].message].greeting
    /\ ~of_message[threads[t].message].out_of_scope[
            of_message[threads[t].message].marked[session_in_scope]]

\* get_response lines 368-374, 382-383 with _get_abdominal_pain_response
\* lines 335-342
ThreadDirectLookup(t) ==
    /\ ThreadInScope(t)
    /\ of_message[threads[t].message].group # None
    /\ session_in_scope' = TRUE
    /\ Computed(t, DirectReply(of_message[threads[t].message].group))
    /\ UNCHANGED <<model, medical_data, conversation_history, current_case, http_response,
                   callers, encode_calls>>

\* get_response lines 368-374, 382-383 with _get_abdominal_pain_response
\* lines 345-347
ThreadCaseAnalysis(t) ==
    /\ ThreadInScope(t)
    /\ of_message[threads[t].message].group = None
    /\ LET case == _update_case_state(current_case, of_message[threads[t].message].facts)
       IN /\ current_case' = case
          /\ encode_calls' = EncodeCalls(case, medical_data)
          /\ Computed(t, _build_analysis_response(case, medical_data, model))
    /\ session_in_scope' = TRUE
    /\ UNCHANGED <<model, medical_data, conversation_history, http_response, callers>>

\* the same step when self.model.encode raises: the thread leaves
\* get_response and chat() answers 500 (app.py lines 27-28)
ThreadEncodeFails(t) ==
    /\ ThreadInScope(t)
    /\ of_message[threads[t].message].group = None
    /\ Len(medical_data.causes) > 0
    /\ LET case == _update_case_state(current_case, of_message[threads[t].message].facts)
       IN /\ current_case' = case
          /\ \E raising \in 1..2 :
                encode_calls' = Take(EncodeCalls(case, medical_data), raising)
    /\ session_in_scope' = TRUE
    /\ http_response' = Err(500, "encode failed")
    /\ threads' = [threads EXCEPT ![t] = NoThread[t]]
    /\ UNCHANGED <<model, medical_data, conversation_history, callers>>

\* self.conversation_history[-1]['bot'] = response (lines 365, 378, 384), the
\* return, and app.py line 25
ThreadRecord(t) ==
    /\ At_(t, "computed")
    /\ conversation_history' =
          [conversation_history EXCEPT ![Len(conversation_history)] =
              [user |-> @.user, timestamp |-> @.timestamp, bot |-> threads[t].response]]
    /\ http_response' = Ok(threads[t].response)
    /\ threads' = [threads EXCEPT ![t] = NoThread[t]]
    /\ UNCHANGED <<model, medical_data, session_in_scope, current_case, callers,
                   encode_calls>>

ThreadNext ==
    \E t \in Conversations :
        \/ \E message \in ThreadMsgs : ThreadAppend(t, message)
        \/ ThreadGreeting(t)
        \/ ThreadOutOfScope(t)
        \/ ThreadDirectLookup(t)
        \/ ThreadCaseAnalysis(t)
        \/ ThreadEncodeFails(t)
        \/ ThreadRecord(t)

ThreadSpec == Init /\ [][ThreadNext]_vars

(***************************************************************************)
(* Vocabulary of the properties                                             *)
(***************************************************************************)
\* the turn a step records, seen from the two states of the step
TurnTaken == Len(conversation_history') = Len(conversation_history) + 1
TurnMessage == conversation_history'[Len(conversation_history')].user

\* the entry of the last turn, in one state
HasTurn == Len(conversation_history) > 0
LastTurn == conversation_history[Len(conversation_history)]
Replied(entry) == "bot" \in DOMAIN entry

\* kinds of reply
IsGreetingReply(r) == \E g \in 1..Len(greetings) : r = <<Line("greeting", greetings[g])>>
IsRefusal(r) == r = <<Line("refusal", Refusal)>>
IsAnalysis(r) == Len(r) > 0 /\ r[1].kind = "header"
HasKind(r, kind) == \E k \in 1..Len(r) : r[k].kind = kind
CountKind(r, kind) == Cardinality({k \in 1..Len(r) : r[k].kind = kind})

\* the step is a turn that went through fact extraction and the merge
\* (answered with an analysis reply, or ended by an exception of the ranker)
AnalysedStep ==
    /\ TurnTaken
    /\ \/ http_response'.status = 200 /\ IsAnalysis(http_response'.response)
       \/ http_response'.status = 500

\* per message, computed once: what the extractor finds, whether the
\* message is a greeting, whether it has a word of the scope vocabulary
extracted == [m \in AllMsgs |-> _extract_structured_facts(m)]
greets == [m \in AllMsgs |-> _is_greeting(m)]
in_vocabulary == [m \in AllMsgs |-> AnyIn(ToLower(m), abdominal_keywords)]
mentions_blood == [m \in AllMsgs |-> Contains(ToLower(m), "blood")]

ScalarFields == {"onset", "duration", "location", "severity"}

(***************************************************************************)
(* C1: associated_symptoms never shrinks: every step leaves a superset, and *)
(* a case-analysis turn leaves exactly the union of the previous set and    *)
(* the symptoms extracted from the message of that turn.                    *)
(***************************************************************************)
C1_SymptomsAdditive ==
    [][ /\ current_case.associated_symptoms \subseteq current_case'.associated_symptoms
        /\ AnalysedStep =>
              current_case'.associated_symptoms =
                  current_case.associated_symptoms
                  \cup extracted[TurnMessage].associated_symptoms ]_vars

\* two analysed turns, the second adding to what the first left
C1_Witness ==
    /\ Len(conversation_history) = 2
    /\ conversation_history[1].user = "I am vomiting blood"
    /\ conversation_history[2].user = "severe pain with fever, nausea and vomiting for 2 days"
    /\ current_case.associated_symptoms = {"vomiting", "fever", "nausea"}

(***************************************************************************)
(* C2: each scalar field is last-write-wins: a case-analysis turn sets it   *)
(* to the value extracted from the message if there is one and keeps it     *)
(* otherwise, and no step resets a set field to unset.                      *)
(***************************************************************************)
C2_ScalarsLastWriteWins ==
    [][ \A f \in ScalarFields :
          /\ Truthy(current_case[f]) => Truthy(current_case'[f])
          /\ AnalysedStep =>
                current_case'[f] = IF Truthy(extracted[TurnMessage][f])
                                   THEN extracted[TurnMessage][f]
                                   ELSE current_case[f] ]_vars

\* severity overwritten by the second turn, duration kept from the first
C2_Witness ==
    /\ Len(conversation_history) = 2
    /\ conversation_history[1].user = "severe pain with fever, nausea and vomiting for 2 days"
    /\ conversation_history[2].user = "I have mild pain in my lower right abdomen since yesterday"
    /\ current_case.severity = "mild"
    /\ current_case.duration = "2 days"

(***************************************************************************)
(* C3: after "I have mild pain in my lower right abdomen since yesterday"   *)
(* in a fresh session severity = mild, location = lower right and           *)
(* onset = yesterday; after "now I also feel nauseous" as second turn       *)
(* associated_symptoms contains "nausea" and the three fields are as after  *)
(* the first turn.                                                          *)
(***************************************************************************)
C3_FactAccumulation ==
    LET after1 == /\ current_case.severity = "mild"
                  /\ current_case.location = "lower right"
                  /\ current_case.onset = "yesterday"
    IN (/\ HasTurn
        /\ conversation_history[1].user
             = "I have mild pain in my lower right abdomen since yesterday")
       => /\ Len(conversation_history) = 1 => after1
          /\ (/\ Len(conversation_history) = 2
              /\ conversation_history[2].user = "now I also feel nauseous")
             => ("nausea" \in current_case.associated_symptoms /\ after1)

(***************************************************************************)
(* C4: scope is sticky: session_in_scope never goes from true to false, and *)
(* a turn taken while it is true is never answered with the refusal.        *)
(***************************************************************************)
C4_ScopeSticky ==
    [][ session_in_scope =>
          /\ session_in_scope'
          /\ (TurnTaken /\ http_response'.status = 200)
                => ~IsRefusal(http_response'.response) ]_vars

\* "tell me more" after "my stomach hurts" is analysed, not refused
C4_Witness ==
    /\ Len(conversation_history) = 2
    /\ conversation_history[1].user = "my stomach hurts"
    /\ conversation_history[2].user = "tell me more"
    /\ Replied(conversation_history[2])
    /\ IsAnalysis(conversation_history[2].bot)
    /\ session_in_scope

(***************************************************************************)
(* C5: a message that is not a greeting and has no word of the scope        *)
(* vocabulary, sent while session_in_scope is false, is answered with the   *)
(* refusal, and the turn leaves current_case and session_in_scope as they   *)
(* were.                                                                    *)
(***************************************************************************)
C5_OutOfScopeRefused ==
    [][ (/\ TurnTaken
         /\ ~session_in_scope
         /\ ~greets[TurnMessage]
         /\ ~in_vocabulary[TurnMessage])
        => /\ http_response' = Ok(<<Line("refusal", Refusal)>>)
           /\ Replied(conversation_history'[Len(conversation_history')])
           /\ conversation_history'[Len(conversation_history')].bot = <<Line("refusal", Refusal)>>
           /\ current_case' = current_case
           /\ session_in_scope' = session_in_scope ]_vars

\* the refusal in a fresh session
C5_Witness ==
    /\ Len(conversation_history) = 1
    /\ conversation_history[1].user = "what's the capital of France"
    /\ http_response = Ok(<<Line("refusal", Refusal)>>)
    /\ current_case = EmptyCase
    /\ ~session_in_scope

(***************************************************************************)
(* C6: a turn whose message matches a greeting pattern is answered with one *)
(* of the three greeting strings and changes neither current_case nor       *)
(* session_in_scope, whatever else the message contains.                    *)
(***************************************************************************)
C6_GreetingNoMutation ==
    [][ (TurnTaken /\ greets[TurnMessage])
        => /\ http_response'.status = 200
           /\ IsGreetingReply(http_response'.response)
           /\ current_case' = current_case
           /\ session_in_scope' = session_in_scope ]_vars

\* a greeting that also names the stomach, pain and fever, first in a session
C6_Witness ==
    /\ Len(conversation_history) = 1
    /\ conversation_history[1].user = "Hi, I have severe stomach pain and fever"
    /\ IsGreetingReply(http_response.response)
    /\ current_case = EmptyCase
    /\ ~session_in_scope

(***************************************************************************)
(* C7: for every CaseState with severity = severe the red-flag list has     *)
(* "Severe abdominal pain", and for every CaseState with "fever" among the  *)
(* associated symptoms it has "Pain with fever", whatever the other fields  *)
(* and the emergency phrases of the data file.                              *)
(***************************************************************************)
C7_ExplicitRedFlags ==
    LET flags == _red_flag_check(current_case, medical_data)
    IN /\ current_case.severity = "severe" => InSeq("Severe abdominal pain", flags)
       /\ "fever" \in current_case.associated_symptoms => InSeq("Pain with fever", flags)

\* an analysed case with both conditions and five emergency phrases hit
\* before the explicit rules
C7_Witness ==
    /\ http_response.status = 200
    /\ current_case.severity = "severe"
    /\ "fever" \in current_case.associated_symptoms
    /\ Len(_red_flag_check(current_case, medical_data)) = 7

(***************************************************************************)
(* C8: on a case-analysis turn with "vomiting" among the associated         *)
(* symptoms and "blood" in the text of the message, the red-flag list has   *)
(* "Vomiting blood" and the reply has the urgent-care block.                *)
(***************************************************************************)
C8_VomitingBlood ==
    (/\ HasTurn
     /\ Replied(LastTurn)
     /\ IsAnalysis(LastTurn.bot)
     /\ "vomiting" \in current_case.associated_symptoms
     /\ mentions_blood[LastTurn.user])
    => /\ InSeq("Vomiting blood", _red_flag_check(current_case, medical_data))
       /\ HasKind(LastTurn.bot, "urgent")

(***************************************************************************)
(* C9: no in-scope, non-greeting turn is answered with care content (the    *)
(* home-remedy list or the self-care block) while the current CaseState     *)
(* raises a red flag.                                                       *)
(***************************************************************************)
C9_SafetyCheckNeverSkipped ==
    (/\ HasTurn
     /\ Replied(LastTurn)
     /\ ~IsGreetingReply(LastTurn.bot)
     /\ ~IsRefusal(LastTurn.bot)
     /\ Len(_red_flag_check(current_case, medical_data)) > 0)
    => /\ ~HasKind(LastTurn.bot, "home_remedies")
       /\ ~HasKind(LastTurn.bot, "selfcare")
       /\ ~HasKind(LastTurn.bot, "remedy")

(***************************************************************************)
(* C10: in an analysis reply the urgent-care block is there iff the         *)
(* red-flag list is non-empty and lists its first flags, five at most; the  *)
(* self-care block is there iff the list is empty and the data file has a   *)
(* home remedy, and lists the first remedies, four at most; the two blocks  *)
(* never appear together.                                                   *)
(***************************************************************************)
TextsOfKind(r, kind) ==
    LET picked == SelectSeq(r, LAMBDA l : l.kind = kind)
    IN [k \in 1..Len(picked) |-> picked[k].text]

C10_CareBlocksGated ==
    (HasTurn /\ Replied(LastTurn) /\ IsAnalysis(LastTurn.bot))
    => LET r == LastTurn.bot
           flags == _red_flag_check(current_case, medical_data)
           remedies == medical_data.home_remedies
           nflags == IF Len(flags) < 5 THEN Len(flags) ELSE 5
           nremedies == IF Len(remedies) < 4 THEN Len(remedies) ELSE 4
       IN /\ HasKind(r, "urgent") <=> Len(flags) > 0
          /\ HasKind(r, "selfcare") <=> (Len(flags) = 0 /\ Len(remedies) > 0)
          /\ ~(HasKind(r, "urgent") /\ HasKind(r, "selfcare"))
          /\ CountKind(r, "urgent") <= 1 /\ CountKind(r, "selfcare") <= 1
          /\ TextsOfKind(r, "flag") =
                IF Len(flags) > 0
                THEN [k \in 1..nflags |-> "* " \o flags[k]]
                ELSE <<>>
          /\ TextsOfKind(r, "remedy") =
                IF Len(flags) = 0
                THEN [k \in 1..nremedies |->
                        "* " \o remedies[k].remedy \o ": " \o remedies[k].description]
                ELSE <<>>

\* a reply whose case raises six flags and shows five of them
C10_Witness ==
    /\ HasTurn /\ Replied(LastTurn) /\ IsAnalysis(LastTurn.bot)
    /\ Len(_red_flag_check(current_case, medical_data)) = 6
    /\ CountKind(LastTurn.bot, "flag") = 5
    /\ ~HasKind(LastTurn.bot, "selfcare")


(***************************************************************************)
(* C11: every analysis reply has its blocks in the order header, causes     *)
(* (the ranked causes or the single need-more-detail bullet), urgent-care   *)
(* or self-care block, follow-up prompt, disclaimer; the header, the causes *)
(* section and the disclaimer are always there, and the disclaimer is last. *)
(***************************************************************************)
\* position of the block a line belongs to
BlockOf(kind) ==
    CASE kind = "header" -> 1
      [] kind \in {"cause", "need_detail"} -> 2
      [] kind \in {"urgent", "flag", "selfcare", "remedy"} -> 3
      [] kind = "followup" -> 4
      [] kind = "disclaimer" -> 5
      [] OTHER -> 0

C11_BlockOrder ==
    (http_response.status = 200 /\ IsAnalysis(http_response.response))
    => LET r == http_response.response
       IN /\ \A k \in 1..Len(r) : BlockOf(r[k].kind) > 0
          /\ \A k \in 1..(Len(r) - 1) : BlockOf(r[k].kind) <= BlockOf(r[k + 1].kind)
          /\ CountKind(r, "header") = 1
          /\ r[1].text = "Thanks for the details. From what you've shared ("
                         \o _case_summary_text(current_case)
                         \o "), here are the most likely possibilities based on my training data:"
          /\ HasKind(r, "cause") \/ HasKind(r, "need_detail")
          /\ HasKind(r, "need_detail") => (CountKind(r, "need_detail") = 1 /\ ~HasKind(r, "cause"))
          /\ CountKind(r, "cause") <= 3
          /\ \A k \in 1..Len(r) :
                /\ r[k].kind \in {"urgent", "selfcare"} => r[k - 1].kind \in {"cause", "need_detail"}
                /\ r[k].kind = "flag" => r[k - 1].kind \in {"urgent", "flag"}
                /\ r[k].kind = "remedy" => r[k - 1].kind \in {"selfcare", "remedy"}
          /\ CountKind(r, "followup") <= 1
          /\ CountKind(r, "disclaimer") = 1
          /\ r[Len(r)].kind = "disclaimer"

\* a reply with all five blocks: three causes, the urgent-care block, the
\* follow-up prompt and the disclaimer
C11_Witness ==
    /\ http_response.status = 200
    /\ IsAnalysis(http_response.response)
    /\ CountKind(http_response.response, "cause") = 3
    /\ HasKind(http_response.response, "urgent")
    /\ HasKind(http_response.response, "followup")
    /\ http_response.response[Len(http_response.response)].kind = "disclaimer"


(***************************************************************************)
(* C12: a request whose message is empty or absent is answered with the     *)
(* invalid-input error, and a request answered so changes neither           *)
(* current_case nor session_in_scope nor conversation_history.              *)
(***************************************************************************)
C12_InvalidInputNoMutation ==
    [][ /\ (\E conv \in Conversations, message \in Msgs :
               ~Truthy(message) /\ chat(conv, message))
           => http_response' = Err(400, "Message is required")
        /\ http_response'.status = 400
           => /\ current_case' = current_case
              /\ session_in_scope' = session_in_scope
              /\ conversation_history' = conversation_history ]_vars

\* the empty message sent after an analysed turn: the error is returned and
\* the session is as that turn left it
C12_Witness ==
    /\ http_response = Err(400, "Message is required")
    /\ Len(conversation_history) = 1
    /\ conversation_history[1].user = "severe pain with fever, nausea and vomiting for 2 days"
    /\ current_case.severity = "severe"
    /\ session_in_scope


(***************************************************************************)
(* C13: a case-analysis turn during which the encoder raises still          *)
(* completes: the caller gets status 200 and an analysis reply with the     *)
(* need-more-detail bullet in place of the ranked causes, and that reply is *)
(* the bot text of the turn's entry in conversation_history.                *)
(***************************************************************************)
C13_ProviderFailureRecovered ==
    [][ (\E conv \in Conversations, message \in Msgs : EncodeFails(conv, message))
        => /\ http_response'.status = 200
           /\ IsAnalysis(http_response'.response)
           /\ HasKind(http_response'.response, "need_detail")
           /\ ~HasKind(http_response'.response, "cause")
           /\ Replied(conversation_history'[Len(conversation_history')])
           /\ conversation_history'[Len(conversation_history')].bot = http_response'.response ]_vars

(***************************************************************************)
(* C14: a turn that ends in an internal error leaves current_case as it was *)
(* before the turn, and no entry of conversation_history has a user text    *)
(* without a bot text.                                                      *)
(***************************************************************************)
C14_ErrorLeavesSessionConsistent ==
    [][ /\ http_response'.status = 500 => current_case' = current_case
        /\ \A i \in 1..Len(conversation_history') : Replied(conversation_history'[i]) ]_vars


(***************************************************************************)
(* C15: conversation_history is append-only and complete: a step leaves it  *)
(* as it was or appends one entry to it, and every request that is handled  *)
(* as a turn appends exactly one entry, which holds the message of the      *)
(* request and the reply returned for it.                                   *)
(***************************************************************************)
C15_HistoryAppendOnly ==
    [][ /\ \/ conversation_history' = conversation_history
           \/ /\ TurnTaken
              /\ SubSeq(conversation_history', 1, Len(conversation_history))
                    = conversation_history
        /\ \A conv \in Conversations, message \in Msgs :
              (Truthy(message) /\ chat(conv, message))
              => /\ TurnTaken
                 /\ TurnMessage = message
                 /\ Replied(conversation_history'[Len(conversation_history')])
                 /\ http_response'.status = 200
                 /\ conversation_history'[Len(conversation_history')].bot
                       = http_response'.response ]_vars


(***************************************************************************)
(* C16: conversations are isolated: the turn of a conversation is handled   *)
(* on the facts, the scope and the history of that conversation alone, so   *)
(* after a turn of conversation c the session state is what the turns of c  *)
(* by themselves lead to, the history holds the turns of c only, and the    *)
(* reply is the one c would get if no other conversation existed.           *)
(***************************************************************************)
\* the messages of the recorded turns of conversation c, but the last n
OwnMessages(c, n) ==
    LET mine == SelectSeq([i \in 1..(Len(conversation_history) - n) |-> i],
                          LAMBDA i : callers[i] = c)
    IN [k \in 1..Len(mine) |-> conversation_history[mine[k]].user]

\* the session get_response leaves after handling msgs on a fresh bot
RECURSIVE SessionAfter(_)
SessionAfter(msgs) ==
    IF msgs = <<>> THEN [case |-> EmptyCase, in_scope |-> FALSE]
    ELSE LET s == SessionAfter(SubSeq(msgs, 1, Len(msgs) - 1))
             m == of_message[msgs[Len(msgs)]]
         IN IF m.greeting THEN s
            ELSE IF m.out_of_scope[m.marked[s.in_scope]]
                 THEN [s EXCEPT !.in_scope = m.marked[s.in_scope]]
            ELSE IF m.group # None THEN [s EXCEPT !.in_scope = TRUE]
            ELSE [case |-> _update_case_state(s.case, m.facts), in_scope |-> TRUE]

C16_ConversationsIsolated ==
    HasTurn =>
       LET c == callers[Len(callers)]
           before == SessionAfter(OwnMessages(c, 1))
           after == SessionAfter(OwnMessages(c, 0))
           m == of_message[LastTurn.user]
       IN /\ current_case = after.case
          /\ session_in_scope = after.in_scope
          /\ \A i \in 1..Len(callers) : callers[i] = c
          /\ Replied(LastTurn) =>
                IF m.greeting THEN IsGreetingReply(LastTurn.bot)
                ELSE IF m.out_of_scope[m.marked[before.in_scope]] THEN IsRefusal(LastTurn.bot)
                ELSE IF m.group # None THEN LastTurn.bot = DirectReply(m.group)
                ELSE LastTurn.bot = _build_analysis_response(after.case, medical_data, model)


(***************************************************************************)
(* C17: the ranker returns min(3, number of causes) pairs of a cause and    *)
(* its score, in descending order of score with equal scores in the order   *)
(* of the data file, and every cause left out comes after each returned one *)
(* in that order (lower score, or equal score and later in the file).       *)
(***************************************************************************)
C17_TopThreeStable ==
    http_response.status = 200 =>
       LET causes == medical_data.causes
           n == Len(causes)
           summary == _case_summary_text(current_case)
           sims == [i \in 1..n |-> Similarity(model, summary, cause_text(causes[i]))]
           ranked == _rank_causes(current_case, medical_data, model)
           at == [k \in 1..Len(ranked) |-> CHOOSE i \in 1..n : causes[i] = ranked[k].cause]
           Before(i, j) == sims[i] > sims[j] \/ (sims[i] = sims[j] /\ i < j)
       IN /\ Len(ranked) = IF n < 3 THEN n ELSE 3
          /\ \A k \in 1..Len(ranked) :
                /\ \E i \in 1..n : causes[i] = ranked[k].cause
                /\ ranked[k].score = sims[at[k]]
          /\ \A k \in 1..(Len(ranked) - 1) : Before(at[k], at[k + 1])
          /\ \A j \in 1..n :
                (\A k \in 1..Len(ranked) : at[k] # j)
                => \A k \in 1..Len(ranked) : Before(at[k], j)
          /\ TextsOfKind(http_response.response, "cause") =
                [k \in 1..Len(ranked) |->
                    "* " \o ranked[k].cause.condition \o ": " \o ranked[k].cause.description]

\* four causes, the third and the fourth with the same score, below the
\* first: the third is returned and the fourth is not
C17_Witness ==
    /\ http_response.status = 200
    /\ Len(medical_data.causes) = 4
    /\ LET ranked == _rank_causes(current_case, medical_data, model)
           summary == _case_summary_text(current_case)
           score4 == Similarity(model, summary, cause_text(medical_data.causes[4]))
       IN /\ Len(ranked) = 3
          /\ ranked[3].cause = medical_data.causes[3]
          /\ ranked[3].score = score4
          /\ ranked[1].score > score4


(***************************************************************************)
(* C18: the encoder is never called with an empty batch, and a run of the   *)
(* ranker calls it not at all when the data file has no cause (the result   *)
(* is then empty) and exactly twice otherwise, whatever the number of       *)
(* causes: first with the case summary alone, then with the texts of all    *)
(* the causes in one batch.                                                 *)
(***************************************************************************)
C18_NoEmptyBatch ==
    [][ LET made == encode_calls'
            causes == medical_data.causes
        IN /\ \A c \in 1..Len(made) : Len(made[c]) > 0
           /\ (http_response'.status = 200 /\ IsAnalysis(http_response'.response))
              => IF Len(causes) = 0
                 THEN /\ made = <<>>
                      /\ _rank_causes(current_case', medical_data, model) = <<>>
                      /\ ~HasKind(http_response'.response, "cause")
                 ELSE /\ Len(made) = 2
                      /\ made[1] = <<_case_summary_text(current_case')>>
                      /\ made[2] = [i \in 1..Len(causes) |-> cause_text(causes[i])] ]_vars

\* a ranking over four causes that made its two calls, the second with a
\* batch of four texts
C18_Witness ==
    /\ http_response.status = 200
    /\ Len(medical_data.causes) = 4
    /\ Len(encode_calls) = 2
    /\ Len(encode_calls[1]) = 1
    /\ Len(encode_calls[2]) = 4


(***************************************************************************)
(* C19: on a turn that is neither a greeting nor refused, the keyword       *)
(* groups are tried in the order causes, symptoms, emergency, home remedy:  *)
(* when the message hits a group the reply is the static list of the first  *)
(* group it hits, whatever later groups it also hits, and current_case is   *)
(* left as it was; only a message that hits no group is analysed.           *)
(***************************************************************************)
GroupPriority == <<"causes", "symptoms", "when_to_seek_help", "home_remedies">>

\* per message, computed once: the groups it hits
hits == [m \in AllMsgs |->
            [g \in DOMAIN group_keywords |-> AnyIn(ToLower(m), group_keywords[g])]]

C19_GroupPriority ==
    [][ (/\ TurnTaken
         /\ ~greets[TurnMessage]
         /\ ~(http_response'.status = 200 /\ IsRefusal(http_response'.response)))
        => LET m == TurnMessage
           IN IF \E k \in 1..Len(GroupPriority) : hits[m][GroupPriority[k]]
              THEN LET k == CHOOSE k \in 1..Len(GroupPriority) :
                              /\ hits[m][GroupPriority[k]]
                              /\ \A j \in 1..(k - 1) : ~hits[m][GroupPriority[j]]
                       static == abdominal_pain_responses[GroupPriority[k]]
                   IN /\ http_response'.status = 200
                      /\ Len(http_response'.response) = Len(static)
                      /\ \A l \in 1..Len(static) : http_response'.response[l].text = static[l]
                      /\ current_case' = current_case
                      /\ encode_calls' = <<>>
              ELSE AnalysedStep ]_vars

\* a message that hits all four groups and names a mild pain, sent after an
\* analysed turn: answered with the list of causes, the case as before
C19_Witness ==
    /\ Len(conversation_history) = 2
    /\ conversation_history[1].user = "severe pain with fever"
    /\ conversation_history[2].user
          = "why do I have these signs, is it urgent, what can help my mild pain"
    /\ \A g \in DOMAIN group_keywords : hits[conversation_history[2].user][g]
    /\ http_response = Ok(DirectReply("causes"))
    /\ current_case.severity = "severe"

(***************************************************************************)
(* C20: the severity extracted from a message is mild if its text has       *)
(* "mild", else moderate if it has "moderate", else severe if it has        *)
(* "severe" or "worst", else unset; the turn sets current_case.severity to  *)
(* the extracted value when there is one, so a message with both "mild"     *)
(* and "severe" sets it to mild.                                            *)
(***************************************************************************)
\* per message, computed once: the words of the severity vocabulary in its
\* lower-cased text
has_word == [m \in AllMsgs |->
                [w \in {"mild", "moderate", "severe", "worst"} |-> Contains(ToLower(m), w)]]

C20_SeverityFirstHit ==
    [][ AnalysedStep =>
          LET m == TurnMessage
              expected == IF has_word[m]["mild"] THEN "mild"
                          ELSE IF has_word[m]["moderate"] THEN "moderate"
                          ELSE IF has_word[m]["severe"] \/ has_word[m]["worst"] THEN "severe"
                          ELSE None
          IN /\ extracted[m].severity = expected
             /\ current_case'.severity =
                   IF expected # None THEN expected ELSE current_case.severity ]_vars

\* "severe" then "mild" in one message, after a turn that had set severe
C20_Witness ==
    /\ Len(conversation_history) = 2
    /\ conversation_history[1].user = "the pain is worst, at times severe"
    /\ conversation_history[2].user = "the pain is severe, at times mild"
    /\ current_case.severity = "mild"


(***************************************************************************)
(* C21: "fever" stays in associated_symptoms once it is there, and every    *)
(* analysis reply composed while it is there has the urgent-care block,     *)
(* with "Pain with fever" among its bullets, and no self-care block; an     *)
(* analysis reply composed while severity is severe has the urgent-care     *)
(* block, and when a turn overwrites severe with mild or moderate and the   *)
(* rest of the case raises no flag, the reply of that turn has none.        *)
(***************************************************************************)
\* the step ends a turn with an analysis reply
AnalysisReplied ==
    TurnTaken /\ http_response'.status = 200 /\ IsAnalysis(http_response'.response)

\* what C21 says of the flags raised by severity
SevereUntilOverwritten ==
    AnalysisReplied =>
       /\ current_case'.severity = "severe" => HasKind(http_response'.response, "urgent")
       /\ (/\ current_case.severity = "severe"
           /\ current_case'.severity \in {"mild", "moderate"}
           /\ _red_flag_check([current_case' EXCEPT !.severity = None], medical_data) = <<>>)
          => ~HasKind(http_response'.response, "urgent")

C21_FeverUrgentAndListed ==
    [][ /\ "fever" \in current_case.associated_symptoms
           => "fever" \in current_case'.associated_symptoms
        /\ (AnalysisReplied /\ "fever" \in current_case'.associated_symptoms)
           => /\ HasKind(http_response'.response, "urgent")
              /\ InSeq("* Pain with fever", TextsOfKind(http_response'.response, "flag"))
              /\ ~HasKind(http_response'.response, "selfcare")
        /\ SevereUntilOverwritten ]_vars

(***************************************************************************)
(* C21, amended: as above, except that "Pain with fever" is in the red-flag *)
(* list of the case, and is among the bullets of the urgent-care block when *)
(* it is one of the first five flags of that list.                          *)
(***************************************************************************)
C21_FeverUrgentForGood ==
    [][ /\ "fever" \in current_case.associated_symptoms
           => "fever" \in current_case'.associated_symptoms
        /\ (AnalysisReplied /\ "fever" \in current_case'.associated_symptoms)
           => LET flags == _red_flag_check(current_case', medical_data)
              IN /\ HasKind(http_response'.response, "urgent")
                 /\ InSeq("Pain with fever", flags)
                 /\ InSeq("Pain with fever", Take(flags, 5))
                    <=> InSeq("* Pain with fever", TextsOfKind(http_response'.response, "flag"))
                 /\ ~HasKind(http_response'.response, "selfcare")
        /\ SevereUntilOverwritten ]_vars

\* fever entered in the first turn; the second turn says mild, and its reply
\* still has the urgent-care block with "Pain with fever"
C21_Witness ==
    /\ Len(conversation_history) = 2
    /\ conversation_history[1].user = "severe pain with fever, nausea and vomiting for 2 days"
    /\ conversation_history[2].user = "I have mild pain in my lower right abdomen since yesterday"
    /\ current_case.severity = "mild"
    /\ http_response.status = 200
    /\ HasKind(http_response.response, "urgent")
    /\ InSeq("* Pain with fever", TextsOfKind(http_response.response, "flag"))
    /\ ~HasKind(http_response.response, "selfcare")


(***************************************************************************)
(* C22: a turn whose message is not a greeting is answered with the refusal *)
(* iff session_in_scope is false after the turn; so a turn whose message    *)
(* has a word of the wider vocabulary of _is_out_of_scope, even none of     *)
(* abdominal, stomach, belly, gut and pain, leaves session_in_scope true.   *)
(***************************************************************************)
C22_RefusedIffOutOfScope ==
    [][ (TurnTaken /\ ~greets[TurnMessage])
        => /\ (http_response'.status = 200 /\ IsRefusal(http_response'.response))
              <=> ~session_in_scope'
           /\ in_vocabulary[TurnMessage] => session_in_scope' ]_vars

\* "I feel nausea and cramps" in a fresh session: no word of the narrow list,
\* yet the session is in scope and "tell me more" is analysed afterwards
C22_Witness ==
    /\ Len(conversation_history) = 2
    /\ conversation_history[1].user = "I feel nausea and cramps"
    /\ ~AnyIn(ToLower(conversation_history[1].user), scope_keywords)
    /\ conversation_history[2].user = "tell me more"
    /\ session_in_scope
    /\ http_response.status = 200
    /\ IsAnalysis(http_response.response)


(***************************************************************************)
(* C23: when the calls of get_response of two threads interleave, the       *)
(* write of the bot text goes with the append of the same call: when a call *)
(* returns its reply, the entry that call appended holds the message of the *)
(* call and that reply, and every other entry is as it was.                 *)
(***************************************************************************)
C23_RecordIsAtomic ==
    [][ \A t \in Conversations :
          (threads[t].pc = "computed" /\ threads'[t].pc = "idle")
          => LET own == threads[t].entry
             IN /\ conversation_history'[own].user = threads[t].message
                /\ Replied(conversation_history'[own])
                /\ conversation_history'[own].bot = threads[t].response
                /\ \A i \in 1..Len(conversation_history) :
                      i # own => conversation_history'[i] = conversation_history[i] ]_vars

=============================================================================
